---- MODULE Spec2Model ----
(***************************************************************************)
(* A model of src/dap_client.py: the Debug Adapter Protocol client that    *)
(* attaches to a running adapter, pauses the first thread and harvests the *)
(* variables of every frame and scope (dap_client, fetch_variables,        *)
(* fetch_variable_tree, send_dap_request).                                 *)
(*                                                                         *)
(* The client is one sequential program.  Its steps are the sends and the  *)
(* blocking reads; the adapter is the environment: at every read it may    *)
(* deliver any message of Messages, or the read may fail.                  *)
(***************************************************************************)
EXTENDS Integers, Sequences, FiniteSets, TLC

(* ------------------------------ bounds -------------------------------- *)

\* messages one run reads that do not end the wait they are read in
MaxNoise == 2
\* variable references the adapter hands out in graph mode: 1..NumRefs
NumRefs == 2
\* largest depth argument of a fetch_variable_tree call made on its own
MaxDepth == 5
\* largest depth_limit of a whole run of dap_client
MaxRunDepth == 1

(* ------------------------- the adapter's data -------------------------- *)

Refs == 1..NumRefs

\* "variables" response bodies in graph mode: the variablesReference of
\* each child, in order (0: the child has no children)
KidLists ==
    {<<>>} \cup {<<a>> : a \in 0..NumRefs}
           \cup {<<a, b>> : a \in 0..NumRefs, b \in 0..NumRefs}

\* the names the adapter gives the children of one variable, by position
VarNames == <<"a", "b">>

\* the adapter reports a chain: the only child of r is r + 1, without end
ChainKids(r) == <<r + 1>>

\* the reference graph of the whole runs: reference 1 has two children
\* that are both reference 2, and the only child of every other reference
\* is reference 1 again (a shared reference and a cycle)
Mixed == [r \in Refs |-> IF r = 1 THEN <<2, 2>> ELSE <<1>>]

RunGraphs == {Mixed}

\* "threads" response bodies, by thread id
ThreadLists == {<<>>, <<2, 1>>}

ThreadIds == {1, 2}

\* stackFrames of a stackTrace response, by frame id
FrameLists == {<<>>, <<10>>, <<10, 11>>}

\* the scopes of every frame: Locals has reference 1 and Globals reference
\* 2, so the frames share their variables and the two scopes differ
Scope(name) ==
    [name |-> name, variablesReference |-> IF name = "Locals" THEN 1 ELSE 2]

\* "scopes" response bodies: no scope, one of the two, or Locals and Globals
ScopeLists ==
    {<<>>, <<Scope("Locals")>>, <<Scope("Globals")>>,
     <<Scope("Locals"), Scope("Globals")>>}

(* ------------------------------ messages ------------------------------- *)

Commands ==
    {"initialize", "attach", "configurationDone", "threads", "pause",
     "stackTrace", "scopes", "variables"}

Responses == [type : {"response"}, command : Commands, success : BOOLEAN]

Events ==
    [type : {"event"}, event : {"stopped"}, threadId : ThreadIds]
        \cup [type : {"event"}, event : {"output"}, threadId : {0}]

Messages == Responses \cup Events

\* dict.get(k): None when the key is absent
Get(m, k) == IF k \in DOMAIN m THEN m[k] ELSE "None"

(* ------------------------------- state --------------------------------- *)

VARIABLES
    pc,           \* the statement of dap_client that runs next
    depth_limit,  \* the argument of dap_client
    sockOpen,     \* the socket is open
    closes,       \* number of sock.close() calls so far
    seq,          \* the local seq of dap_client: the next sequence number
    sent,         \* the requests written to the socket, in order
    unanswered,   \* positions in sent of the requests whose response was
                  \* not read yet
    rd,           \* the messages read since the last send, in stream order
    log,          \* the messages printed ("Got message ...") since then
    noise,        \* reads so far that did not end their wait
    stoppedRead,  \* a stopped event was read after the pause request
    adapter,      \* "graph": the adapter answers from graph; "chain"
    graph,        \* the children the adapter reported for each reference
    threads_list, thread_id,
    frames, fi,   \* stackFrames of the stackTrace response; loop index
    scope_list, si,  \* scopes of the current frame; loop index
    scope_dict,   \* scope name (lower case) -> variable tree
    frames_data,  \* the frames assembled so far
    visited,      \* the visited set shared by one scope's expansion
    stack,        \* activations of fetch_variable_tree, innermost last
    call,         \* arguments of the fetch_variable_tree call being made
    ret,          \* value returned by the call that just ended
    result,       \* the value dap_client returned
    wire,         \* the bytes written to the socket and not yet received
    wpc,          \* where read_dap_message is: "idle", "line", "body",
                  \* "raised"; "off" when the bytes are not modelled
    buf,          \* read_line: the bytes of the line so far
    headers,      \* read_dap_message: header key -> value
    need,         \* read_exactly: n
    data,         \* read_exactly: the bytes read so far
    msgs,         \* the messages read_dap_message returned, in order
    outbox,       \* the frames still to be written
    written       \* the frames written, in order

\* the state of dap_client
progVars ==
    <<pc, depth_limit, sockOpen, closes, seq, sent, unanswered, rd, log,
      noise, stoppedRead, adapter, graph, threads_list, thread_id, frames,
      fi, scope_list, si, scope_dict, frames_data, visited, stack, call,
      ret, result>>

\* the state of the byte stream
wireVars == <<wire, wpc, buf, headers, need, data, msgs, outbox, written>>

vars == <<progVars, wireVars>>

netVars == <<seq, sent, unanswered, rd, log, noise, stoppedRead>>

dataVars ==
    <<threads_list, thread_id, frames, fi, scope_list, si, scope_dict,
      frames_data>>

treeVars == <<visited, stack, call, ret>>

EmptyMap == [x \in {} |-> <<>>]

NoResult == [returned |-> FALSE, frames |-> <<>>]

NoCall == [var_ref |-> 0, depth |-> 0]

\* the byte stream is not modelled
WireOff ==
    /\ wire = <<>>
    /\ wpc = "off"
    /\ buf = <<>>
    /\ headers = EmptyMap
    /\ need = 0
    /\ data = <<>>
    /\ msgs = <<>>
    /\ outbox = <<>>
    /\ written = <<>>

(* --------------------------- pure helpers ------------------------------ *)

\* str.lower() on the scope names the adapter uses
Lower(name) ==
    CASE name = "Locals" -> "locals"
      [] name = "Globals" -> "globals"
      [] OTHER -> name

\* (mutant) the command of the response is not compared
IsResponseTo_AnyCommand(m, c) == Get(m, "type") = "response"

\* the test of every wait loop: a response whose command is c
IsResponseTo(m, c) == Get(m, "type") = "response" /\ Get(m, "command") = c

IsStopped(m) == Get(m, "type") = "event" /\ Get(m, "event") = "stopped"

CommandOf(k) == sent[k].command

\* the request a response with command c answers: the oldest one pending
Answered(c) ==
    LET pend == { s \in unanswered : CommandOf(s) = c }
    IN  IF pend = {} THEN {}
        ELSE {CHOOSE s \in pend : \A t \in pend : s <= t}

\* the item fetch_variable_tree returns for a reference already visited
Sentinel ==
    [name |-> "<recursive>", variablesReference |-> 0, children |-> <<>>]

MkItem(v, kids) ==
    [name |-> v.name, variablesReference |-> v.variablesReference,
     children |-> kids]

MkVars(kids) ==
    [k \in 1..Len(kids) |-> [name |-> VarNames[k], variablesReference |-> kids[k]]]

(* ------------------------ send_dap_request ----------------------------- *)

Request(s, command, arg) == [seq |-> s, command |-> command, arg |-> arg]

\* (mutant) the caller drops the returned seq + 1
send_dap_request_SeqReused(command, arg) ==
    /\ sent' = Append(sent, Request(seq, command, arg))
    /\ seq' = seq
    /\ unanswered' = unanswered \cup {Len(sent) + 1}
    /\ rd' = <<>>
    /\ log' = <<>>
    /\ UNCHANGED <<noise, stoppedRead>>

\* writes one request with the current seq and returns seq + 1
send_dap_request(command, arg) ==
    /\ sent' = Append(sent, Request(seq, command, arg))
    /\ seq' = seq + 1
    /\ unanswered' = unanswered \cup {Len(sent) + 1}
    /\ rd' = <<>>
    /\ log' = <<>>
    /\ UNCHANGED <<noise, stoppedRead>>

(* ------------------------- read_dap_message ---------------------------- *)

PauseSent == \E k \in 1..Len(sent) : sent[k].command = "pause"

\* one message m was read from the socket
Consume(m) ==
    /\ rd' = Append(rd, m)
    /\ unanswered' =
         IF Get(m, "type") = "response"
         THEN unanswered \ Answered(m.command) ELSE unanswered
    /\ stoppedRead' = (stoppedRead \/ (PauseSent /\ IsStopped(m)))
    /\ UNCHANGED <<seq, sent>>

\* (mutant) the else branch prints nothing
Observe_Silent(m) ==
    /\ noise < MaxNoise
    /\ noise' = noise + 1
    /\ log' = log

\* the else branch of a wait loop: print the message and read again
Observe(m) ==
    /\ noise < MaxNoise
    /\ noise' = noise + 1
    /\ log' = Append(log, m)

Matched == UNCHANGED <<noise, log>>

\* what the adapter may deliver at a read: any event at any time, and a
\* response (success or not) to a request that is still pending
Deliverable ==
    { m \in Messages :
        \/ m.type = "event"
        \/ m.type = "response"
           /\ \E s \in unanswered : CommandOf(s) = m.command }

\* a response that reports a failure may come without a body: indexing it
\* with ["body"] raises KeyError
BodyMissing(m) == ~m.success

WaitPcs ==
    {"waitInitialize", "waitConfigurationDone", "waitThreads", "waitPause",
     "waitStackTrace", "waitScopes", "waitVariables"}

\* (mutant) a wait loop catches the failure and dap_client returns what it
\* has assembled so far
ReadFails_ReturnsPartial ==
    /\ pc \in WaitPcs
    /\ pc' = "done"
    /\ sockOpen' = FALSE
    /\ closes' = closes + 1
    /\ result' = [returned |-> TRUE, frames |-> frames_data]
    /\ UNCHANGED <<wireVars, depth_limit, netVars, adapter, graph, dataVars, treeVars>>

\* read_dap_message raises: the peer closed the stream, the frame has no
\* Content-Length, the payload is not JSON, or the read timed out.
\* Nothing in dap_client catches it.
ReadFails ==
    /\ pc \in WaitPcs
    /\ pc' = "raised"
    /\ UNCHANGED <<wireVars, depth_limit, sockOpen, closes, netVars, adapter, graph,
                   dataVars, treeVars, result>>

(* ----------------------------- dap_client ------------------------------ *)

\* the state after socket.create_connection and seq = 1
Init ==
    /\ WireOff
    /\ pc = "initialize"
    /\ depth_limit \in 0..MaxRunDepth
    /\ sockOpen = TRUE
    /\ closes = 0
    /\ seq = 1
    /\ sent = <<>>
    /\ unanswered = {}
    /\ rd = <<>>
    /\ log = <<>>
    /\ noise = 0
    /\ stoppedRead = FALSE
    /\ \/ adapter = "chain" /\ graph = EmptyMap
       \/ adapter = "graph" /\ graph \in RunGraphs
    /\ threads_list = <<>>
    /\ thread_id = 0
    /\ frames = <<>>
    /\ fi = 1
    /\ scope_list = <<>>
    /\ si = 1
    /\ scope_dict = EmptyMap
    /\ frames_data = <<>>
    /\ visited = {}
    /\ stack = <<>>
    /\ call = NoCall
    /\ ret = <<>>
    /\ result = NoResult

\* 1) "initialize"
SendInitialize ==
    /\ pc = "initialize"
    /\ send_dap_request("initialize", 0)
    /\ pc' = "waitInitialize"
    /\ UNCHANGED <<wireVars, depth_limit, sockOpen, closes, adapter, graph, dataVars,
                   treeVars, result>>

WaitInitialize ==
    /\ pc = "waitInitialize"
    /\ \E m \in Deliverable :
         /\ Consume(m)
         /\ IF IsResponseTo(m, "initialize")
            THEN Matched /\ pc' = "attach"
            ELSE Observe(m) /\ pc' = pc
    /\ UNCHANGED <<wireVars, depth_limit, sockOpen, closes, adapter, graph, dataVars,
                   treeVars, result>>

\* 2) "attach": sent, and its response is not waited for
SendAttach ==
    /\ pc = "attach"
    /\ send_dap_request("attach", 0)
    /\ pc' = "configurationDone"
    /\ UNCHANGED <<wireVars, depth_limit, sockOpen, closes, adapter, graph, dataVars,
                   treeVars, result>>

\* 3) "configurationDone"
SendConfigurationDone ==
    /\ pc = "configurationDone"
    /\ send_dap_request("configurationDone", 0)
    /\ pc' = "waitConfigurationDone"
    /\ UNCHANGED <<wireVars, depth_limit, sockOpen, closes, adapter, graph, dataVars,
                   treeVars, result>>

WaitConfigurationDone ==
    /\ pc = "waitConfigurationDone"
    /\ \E m \in Deliverable :
         /\ Consume(m)
         /\ IF IsResponseTo(m, "configurationDone")
            THEN Matched /\ pc' = "threads"
            ELSE Observe(m) /\ pc' = pc
    /\ UNCHANGED <<wireVars, depth_limit, sockOpen, closes, adapter, graph, dataVars,
                   treeVars, result>>

\* 4) "threads"
SendThreads ==
    /\ pc = "threads"
    /\ send_dap_request("threads", 0)
    /\ pc' = "waitThreads"
    /\ UNCHANGED <<wireVars, depth_limit, sockOpen, closes, adapter, graph, dataVars,
                   treeVars, result>>

\* the wait for the threads response; threads_response["body"] lists the
\* threads, or raises KeyError
WaitThreads ==
    /\ pc = "waitThreads"
    /\ \E m \in Deliverable :
         /\ Consume(m)
         /\ IF IsResponseTo(m, "threads")
            THEN /\ Matched
                 /\ \/ /\ \E tl \in ThreadLists : threads_list' = tl
                       /\ pc' = "checkThreads"
                    \/ /\ BodyMissing(m)
                       /\ pc' = "raised"
                       /\ UNCHANGED threads_list
            ELSE /\ Observe(m)
                 /\ pc' = pc
                 /\ UNCHANGED threads_list
    /\ UNCHANGED <<wireVars, depth_limit, sockOpen, closes, adapter, graph, thread_id,
                   frames, fi, scope_list, si, scope_dict, frames_data,
                   treeVars, result>>

\* (mutant) the return after sock.close() is missing: the pause request
\* follows
NoThreads_NoReturn ==
    /\ pc = "checkThreads"
    /\ threads_list = <<>>
    /\ sockOpen' = FALSE
    /\ closes' = closes + 1
    /\ send_dap_request("pause", 0)
    /\ pc' = "waitPause"
    /\ UNCHANGED <<wireVars, depth_limit, adapter, graph, dataVars, treeVars, result>>

\* if not threads_list: close the socket and return {"frames": []}
NoThreads ==
    /\ pc = "checkThreads"
    /\ threads_list = <<>>
    /\ sockOpen' = FALSE
    /\ closes' = closes + 1
    /\ result' = [returned |-> TRUE, frames |-> <<>>]
    /\ pc' = "done"
    /\ UNCHANGED <<wireVars, depth_limit, netVars, adapter, graph, dataVars, treeVars>>

\* thread_id = threads_list[0]["id"]; send "pause"
SendPause ==
    /\ pc = "checkThreads"
    /\ threads_list # <<>>
    /\ thread_id' = threads_list[1]
    /\ send_dap_request("pause", threads_list[1])
    /\ pc' = "waitPause"
    /\ UNCHANGED <<wireVars, depth_limit, sockOpen, closes, adapter, graph,
                   threads_list, frames, fi, scope_list, si, scope_dict,
                   frames_data, treeVars, result>>

\* (mutant) the pause response ends the loop
WaitPause_EndsOnResponse ==
    /\ pc = "waitPause"
    /\ \E m \in Deliverable :
         /\ Consume(m)
         /\ IF IsResponseTo(m, "pause") \/ IsStopped(m)
            THEN Matched /\ pc' = "stackTrace"
            ELSE Observe(m) /\ pc' = pc
    /\ UNCHANGED <<wireVars, depth_limit, sockOpen, closes, adapter, graph, dataVars,
                   treeVars, result>>

\* (mutant) only a stopped event of the paused thread ends the loop
WaitPause_ChecksThread ==
    /\ pc = "waitPause"
    /\ \E m \in Deliverable :
         /\ Consume(m)
         /\ IF IsStopped(m) /\ m.threadId = thread_id
            THEN Matched /\ pc' = "stackTrace"
            ELSE Observe(m) /\ pc' = pc
    /\ UNCHANGED <<wireVars, depth_limit, sockOpen, closes, adapter, graph, dataVars,
                   treeVars, result>>

\* while not paused: the pause response is printed, a stopped event (of
\* any thread) ends the loop, anything else is printed
WaitPause ==
    /\ pc = "waitPause"
    /\ \E m \in Deliverable :
         /\ Consume(m)
         /\ IF IsResponseTo(m, "pause")
            THEN Observe(m) /\ pc' = pc
            ELSE IF IsStopped(m)
                 THEN Matched /\ pc' = "stackTrace"
                 ELSE Observe(m) /\ pc' = pc
    /\ UNCHANGED <<wireVars, depth_limit, sockOpen, closes, adapter, graph, dataVars,
                   treeVars, result>>

\* 5) "stackTrace"
SendStackTrace ==
    /\ pc = "stackTrace"
    /\ send_dap_request("stackTrace", thread_id)
    /\ pc' = "waitStackTrace"
    /\ UNCHANGED <<wireVars, depth_limit, sockOpen, closes, adapter, graph, dataVars,
                   treeVars, result>>

\* (mutant) the loop compares with a command name no response carries
WaitStackTrace_WrongCommand ==
    /\ pc = "waitStackTrace"
    /\ \E m \in Deliverable :
         /\ Consume(m)
         /\ IF IsResponseTo(m, "stacktrace")
            THEN /\ Matched
                 /\ \E fl \in FrameLists : frames' = fl
                 /\ fi' = 1
                 /\ frames_data' = <<>>
                 /\ pc' = "frameLoop"
            ELSE /\ Observe(m)
                 /\ pc' = pc
                 /\ UNCHANGED <<frames, fi, frames_data>>
    /\ UNCHANGED <<wireVars, depth_limit, sockOpen, closes, adapter, graph,
                   threads_list, thread_id, scope_list, si, scope_dict,
                   treeVars, result>>

\* the wait for the stackTrace response; stack_trace_response["body"] lists
\* the frames, or raises KeyError
WaitStackTrace ==
    /\ pc = "waitStackTrace"
    /\ \E m \in Deliverable :
         /\ Consume(m)
         /\ IF IsResponseTo(m, "stackTrace")
            THEN /\ Matched
                 /\ \/ /\ \E fl \in FrameLists : frames' = fl
                       /\ fi' = 1
                       /\ frames_data' = <<>>
                       /\ pc' = "frameLoop"
                    \/ /\ BodyMissing(m)
                       /\ pc' = "raised"
                       /\ UNCHANGED <<frames, fi, frames_data>>
            ELSE /\ Observe(m)
                 /\ pc' = pc
                 /\ UNCHANGED <<frames, fi, frames_data>>
    /\ UNCHANGED <<wireVars, depth_limit, sockOpen, closes, adapter, graph,
                   threads_list, thread_id, scope_list, si, scope_dict,
                   treeVars, result>>

\* (mutant) every scopes request asks for the first frame
SendScopes_FirstFrame ==
    /\ pc = "frameLoop"
    /\ fi <= Len(frames)
    /\ send_dap_request("scopes", frames[1])
    /\ pc' = "waitScopes"
    /\ UNCHANGED <<wireVars, depth_limit, sockOpen, closes, adapter, graph, dataVars,
                   treeVars, result>>

\* 6) "scopes" for each frame
SendScopes ==
    /\ pc = "frameLoop"
    /\ fi <= Len(frames)
    /\ send_dap_request("scopes", frames[fi])
    /\ pc' = "waitScopes"
    /\ UNCHANGED <<wireVars, depth_limit, sockOpen, closes, adapter, graph, dataVars,
                   treeVars, result>>

\* the wait for the scopes response; scopes_response["body"] lists the
\* scopes, or raises KeyError
WaitScopes ==
    /\ pc = "waitScopes"
    /\ \E m \in Deliverable :
         /\ Consume(m)
         /\ IF IsResponseTo(m, "scopes")
            THEN /\ Matched
                 /\ \/ /\ \E sl \in ScopeLists : scope_list' = sl
                       /\ si' = 1
                       /\ scope_dict' = EmptyMap
                       /\ pc' = "scopeLoop"
                    \/ /\ BodyMissing(m)
                       /\ pc' = "raised"
                       /\ UNCHANGED <<scope_list, si, scope_dict>>
            ELSE /\ Observe(m)
                 /\ pc' = pc
                 /\ UNCHANGED <<scope_list, si, scope_dict>>
    /\ UNCHANGED <<wireVars, depth_limit, sockOpen, closes, adapter, graph,
                   threads_list, thread_id, frames, fi, frames_data,
                   treeVars, result>>

\* (mutant) one visited set shared by all the scopes of the run
ExpandScope_KeepsVisited ==
    /\ pc = "scopeLoop"
    /\ si <= Len(scope_list)
    /\ call' = [var_ref |-> scope_list[si].variablesReference,
                depth |-> depth_limit]
    /\ visited' = visited
    /\ pc' = "fvtCall"
    /\ UNCHANGED <<wireVars, depth_limit, sockOpen, closes, netVars, adapter, graph,
                   dataVars, stack, ret, result>>

\* for scope_info in scope_list: fetch_variable_tree(sock, seq, scope_ref,
\* depth=depth_limit), visited left to its default (a new set)
ExpandScope ==
    /\ pc = "scopeLoop"
    /\ si <= Len(scope_list)
    /\ call' = [var_ref |-> scope_list[si].variablesReference,
                depth |-> depth_limit]
    /\ visited' = {}
    /\ pc' = "fvtCall"
    /\ UNCHANGED <<wireVars, depth_limit, sockOpen, closes, netVars, adapter, graph,
                   dataVars, stack, ret, result>>

\* the scopes of the frame are done: frames_data.append(...)
AppendFrame ==
    /\ pc = "scopeLoop"
    /\ si > Len(scope_list)
    /\ frames_data' = Append(frames_data,
                             [id |-> frames[fi], scopes |-> scope_dict])
    /\ fi' = fi + 1
    /\ pc' = "frameLoop"
    /\ UNCHANGED <<wireVars, depth_limit, sockOpen, closes, netVars, adapter, graph,
                   threads_list, thread_id, frames, scope_list, si,
                   scope_dict, treeVars, result>>

(* ------------------------- fetch_variable_tree ------------------------- *)

Top == stack[Len(stack)]

SetTop(f) == [stack EXCEPT ![Len(stack)] = f]

\* (mutant) the visited test is missing
InVisited_Never(r) == FALSE

\* var_ref in visited
InVisited(r) == r \in visited

\* (mutant) the visited test comes after the request
FvtVisited_Fetches ==
    /\ pc = "fvtCall"
    /\ InVisited(call.var_ref)
    /\ send_dap_request("variables", call.var_ref)
    /\ ret' = <<Sentinel>>
    /\ pc' = "fvtReturn"
    /\ UNCHANGED <<wireVars, depth_limit, sockOpen, closes, adapter, graph,
                   dataVars, visited, stack, call, result>>

\* if var_ref in visited: return the one-item list holding the sentinel
FvtVisited ==
    /\ pc = "fvtCall"
    /\ InVisited(call.var_ref)
    /\ ret' = <<Sentinel>>
    /\ pc' = "fvtReturn"
    /\ UNCHANGED <<wireVars, depth_limit, sockOpen, closes, netVars, adapter, graph,
                   dataVars, visited, stack, call, result>>

\* visited.add(var_ref); fetch_variables sends the "variables" request
FvtFetch ==
    /\ pc = "fvtCall"
    /\ ~InVisited(call.var_ref)
    /\ visited' = visited \cup {call.var_ref}
    /\ send_dap_request("variables", call.var_ref)
    /\ stack' = Append(stack, [var_ref |-> call.var_ref, depth |-> call.depth,
                               vars_list |-> <<>>, i |-> 1, result |-> <<>>])
    /\ pc' = "waitVariables"
    /\ UNCHANGED <<wireVars, depth_limit, sockOpen, closes, adapter, graph, dataVars,
                   call, ret, result>>

\* what the adapter reports as the children of reference r
VarsOf(r, kids) ==
    IF adapter = "chain" THEN kids = ChainKids(r)
    ELSE IF r \in DOMAIN graph THEN kids = graph[r]
    ELSE kids \in KidLists

\* the wait loop of fetch_variables
FetchVariablesWait ==
    /\ pc = "waitVariables"
    /\ \E m \in Deliverable :
         /\ Consume(m)
         /\ IF IsResponseTo(m, "variables")
            THEN /\ Matched
                 /\ \E kids \in KidLists \cup {ChainKids(Top.var_ref)} :
                      /\ VarsOf(Top.var_ref, kids)
                      /\ graph' = IF adapter = "chain" THEN graph
                                  ELSE (Top.var_ref :> kids) @@ graph
                      /\ stack' = SetTop([Top EXCEPT !.vars_list = MkVars(kids)])
                 /\ pc' = "fvtLoop"
            ELSE /\ Observe(m)
                 /\ pc' = pc
                 /\ UNCHANGED <<graph, stack>>
    /\ UNCHANGED <<wireVars, depth_limit, sockOpen, closes, adapter, dataVars, visited,
                   call, ret, result>>

\* (mutant) the depth test is off by one
Expandable_OffByOne(child_ref, depth) == child_ref > 0 /\ depth >= 0

\* if child_ref > 0 and depth > 0
Expandable(child_ref, depth) == child_ref > 0 /\ depth > 0

\* one iteration of "for v in vars_list": a child that is expanded makes
\* the recursive call with depth - 1 and the same visited set
FvtRecurse ==
    /\ pc = "fvtLoop"
    /\ Top.i <= Len(Top.vars_list)
    /\ Expandable(Top.vars_list[Top.i].variablesReference, Top.depth)
    /\ call' = [var_ref |-> Top.vars_list[Top.i].variablesReference,
                depth |-> Top.depth - 1]
    /\ pc' = "fvtCall"
    /\ UNCHANGED <<wireVars, depth_limit, sockOpen, closes, netVars, adapter, graph,
                   dataVars, visited, stack, ret, result>>

\* one iteration for a child that is not expanded: children stays []
FvtLeaf ==
    /\ pc = "fvtLoop"
    /\ Top.i <= Len(Top.vars_list)
    /\ ~Expandable(Top.vars_list[Top.i].variablesReference, Top.depth)
    /\ stack' = SetTop([Top EXCEPT
                          !.result = Append(@, MkItem(Top.vars_list[Top.i], <<>>)),
                          !.i = @ + 1])
    /\ UNCHANGED <<wireVars, pc, depth_limit, sockOpen, closes, netVars, adapter, graph,
                   dataVars, visited, call, ret, result>>

\* return seq, result
FvtReturn ==
    /\ pc = "fvtLoop"
    /\ Top.i > Len(Top.vars_list)
    /\ ret' = Top.result
    /\ stack' = SubSeq(stack, 1, Len(stack) - 1)
    /\ pc' = "fvtReturn"
    /\ UNCHANGED <<wireVars, depth_limit, sockOpen, closes, netVars, adapter, graph,
                   dataVars, visited, call, result>>

\* the recursive call returned: item["children"] = child_vars; append
FvtChildDone ==
    /\ pc = "fvtReturn"
    /\ stack # <<>>
    /\ stack' = SetTop([Top EXCEPT
                          !.result = Append(@, MkItem(Top.vars_list[Top.i], ret)),
                          !.i = @ + 1])
    /\ pc' = "fvtLoop"
    /\ UNCHANGED <<wireVars, depth_limit, sockOpen, closes, netVars, adapter, graph,
                   dataVars, visited, call, ret, result>>

\* the call of the scope loop returned: scope_dict[scope_name_lower] = var_tree
StoreScope ==
    /\ pc = "fvtReturn"
    /\ stack = <<>>
    /\ scope_dict' = (Lower(scope_list[si].name) :> ret) @@ scope_dict
    /\ si' = si + 1
    /\ pc' = "scopeLoop"
    /\ UNCHANGED <<wireVars, depth_limit, sockOpen, closes, netVars, adapter, graph,
                   threads_list, thread_id, frames, fi, scope_list,
                   frames_data, treeVars, result>>

(* ------------------------- the end of dap_client ----------------------- *)

Without(f, k) == [x \in DOMAIN f \ {k} |-> f[x]]

\* frame["scopes"]["locals"] raises KeyError when there is no locals scope
PostRaises(fd) ==
    \E k \in 1..Len(fd) :
        "globals" \in DOMAIN fd[k].scopes /\ "locals" \notin DOMAIN fd[k].scopes

\* (mutant) globals is compared with locals by content, not by length
DropGlobals_ByContent(frame) ==
    IF "globals" \in DOMAIN frame.scopes
       /\ frame.scopes["globals"] = frame.scopes["locals"]
    THEN [frame EXCEPT !.scopes = Without(@, "globals")]
    ELSE frame

\* Remove globals scope if it is as long as locals
DropGlobals(frame) ==
    IF "globals" \in DOMAIN frame.scopes
       /\ Len(frame.scopes["globals"]) = Len(frame.scopes["locals"])
    THEN [frame EXCEPT !.scopes = Without(@, "globals")]
    ELSE frame

\* all frames are done: sock.close(), the globals rule, return
Finish ==
    /\ pc = "frameLoop"
    /\ fi > Len(frames)
    /\ sockOpen' = FALSE
    /\ closes' = closes + 1
    /\ IF PostRaises(frames_data)
       THEN pc' = "raised" /\ UNCHANGED result
       ELSE /\ pc' = "done"
            /\ result' = [returned |-> TRUE,
                          frames |-> [k \in 1..Len(frames_data) |->
                                        DropGlobals(frames_data[k])]]
    /\ UNCHANGED <<wireVars, depth_limit, netVars, adapter, graph, dataVars, treeVars>>

Next ==
    \/ SendInitialize \/ WaitInitialize
    \/ SendAttach
    \/ SendConfigurationDone \/ WaitConfigurationDone
    \/ SendThreads \/ WaitThreads
    \/ NoThreads
    \/ SendPause \/ WaitPause
    \/ SendStackTrace \/ WaitStackTrace
    \/ SendScopes \/ WaitScopes
    \/ ExpandScope \/ AppendFrame
    \/ FvtVisited \/ FvtFetch \/ FetchVariablesWait
    \/ FvtRecurse \/ FvtLeaf \/ FvtReturn \/ FvtChildDone
    \/ StoreScope
    \/ Finish
    \/ ReadFails

Spec == Init /\ [][Next]_vars

(* ------- fetch_variable_tree on its own, for every reference graph ----- *)

\* one call fetch_variable_tree(sock, seq, var_ref, depth) with the default
\* visited, against an adapter that sends nothing but the responses; the
\* graph is fixed by the adapter's first answer for each reference
InitTree ==
    /\ WireOff
    /\ pc = "fvtCall"
    /\ call \in [var_ref : Refs, depth : 0..MaxDepth]
    /\ depth_limit = call.depth
    /\ visited = {}
    /\ stack = <<>>
    /\ ret = <<>>
    /\ sockOpen = TRUE
    /\ closes = 0
    /\ seq = 1
    /\ sent = <<>>
    /\ unanswered = {}
    /\ rd = <<>>
    /\ log = <<>>
    /\ noise = MaxNoise
    /\ stoppedRead = FALSE
    /\ adapter \in {"graph", "chain"}
    /\ graph = EmptyMap
    /\ threads_list = <<>>
    /\ thread_id = 0
    /\ frames = <<>>
    /\ fi = 1
    /\ scope_list = <<>>
    /\ si = 1
    /\ scope_dict = EmptyMap
    /\ frames_data = <<>>
    /\ result = NoResult

NextTree ==
    \/ FvtVisited \/ FvtFetch \/ FetchVariablesWait
    \/ FvtRecurse \/ FvtLeaf \/ FvtReturn \/ FvtChildDone

SpecTree == InitTree /\ [][NextTree]_vars

(* ------- a run against an adapter that answers and stays connected ----- *)

\* no read raises: every read_dap_message returns a message
NextLive ==
    \/ SendInitialize \/ WaitInitialize
    \/ SendAttach
    \/ SendConfigurationDone \/ WaitConfigurationDone
    \/ SendThreads \/ WaitThreads
    \/ NoThreads
    \/ SendPause \/ WaitPause
    \/ SendStackTrace \/ WaitStackTrace
    \/ SendScopes \/ WaitScopes
    \/ ExpandScope \/ AppendFrame
    \/ FvtVisited \/ FvtFetch \/ FetchVariablesWait
    \/ FvtRecurse \/ FvtLeaf \/ FvtReturn \/ FvtChildDone
    \/ StoreScope
    \/ Finish

\* the client is a sequential program that runs whenever it can, and a
\* blocking read returns whenever the adapter has a message for it
SpecLive == Init /\ [][NextLive]_vars /\ WF_vars(NextLive)

(* ----------- the end of dap_client on its own, for every frame --------- *)

PostItem(n) == [name |-> n, variablesReference |-> 0, children |-> <<>>]

\* the variable trees of the scopes: none, one or two top-level entries
PostTrees ==
    {<<>>, <<PostItem("a")>>, <<PostItem("b")>>,
     <<PostItem("a"), PostItem("b")>>}

PostNames == {"locals", "globals", "closure"}

\* the scope_dict of one frame: any of the names, each with any tree
PostScopeDicts == UNION { [S -> PostTrees] : S \in SUBSET PostNames }

PostFrame(id) == { [id |-> id, scopes |-> d] : d \in PostScopeDicts }

\* frames_data when the frame loop has ended: up to two frames
PostFramesData ==
    {<<>>} \cup { <<f>> : f \in PostFrame(10) }
           \cup { <<f, g>> : f \in PostFrame(10), g \in PostFrame(11) }

\* the state of dap_client when "for frame_info in frames" has ended
InitPost ==
    /\ WireOff
    /\ pc = "frameLoop"
    /\ frames_data \in PostFramesData
    /\ frames = [k \in 1..Len(frames_data) |-> frames_data[k].id]
    /\ fi = Len(frames_data) + 1
    /\ depth_limit = 0
    /\ sockOpen = TRUE
    /\ closes = 0
    /\ seq = 1
    /\ sent = <<>>
    /\ unanswered = {}
    /\ rd = <<>>
    /\ log = <<>>
    /\ noise = MaxNoise
    /\ stoppedRead = TRUE
    /\ adapter = "graph"
    /\ graph = EmptyMap
    /\ threads_list = <<2, 1>>
    /\ thread_id = 2
    /\ scope_list = <<>>
    /\ si = 1
    /\ scope_dict = EmptyMap
    /\ visited = {}
    /\ stack = <<>>
    /\ call = NoCall
    /\ ret = <<>>
    /\ result = NoResult

NextPost == Finish

SpecPost == InitPost /\ [][NextPost]_vars

(* ------------------- the bytes on the socket: JSON --------------------- *)

\* A byte is a string of one character; text is a sequence of bytes. The
\* one character outside ASCII stands for itself before encoding.
LF == "\n"
CR == "\r"
QUOTE == "\""
BACKSLASH == "\\"
EAcute == "U+00E9"

DigitChars == <<"0", "1", "2", "3", "4", "5", "6", "7", "8", "9">>

IsDigit(c) == \E d \in 1..10 : DigitChars[d] = c

DigitVal(c) == (CHOOSE d \in 1..10 : DigitChars[d] = c) - 1

RECURSIVE Digits(_)
\* str(n) for n >= 0
Digits(n) ==
    IF n < 10 THEN <<DigitChars[n + 1]>>
    ELSE Digits(n \div 10) \o <<DigitChars[(n % 10) + 1]>>

\* JSON values: an integer, a string or an object (its pairs in order)
JNull == [t |-> "null", n |-> 0, s |-> <<>>, o |-> <<>>]
JInt(n) == [t |-> "int", n |-> n, s |-> <<>>, o |-> <<>>]
JStr(s) == [t |-> "str", n |-> 0, s |-> s, o |-> <<>>]
JObj(o) == [t |-> "obj", n |-> 0, s |-> <<>>, o |-> o]
Pair(k, v) == [k |-> k, v |-> v]

\* (mutant) strings are written without escapes
EscapeChar_Raw(c) == <<c>>

\* json.dumps with ensure_ascii: the escape of one character of a string
EscapeChar(c) ==
    CASE c = QUOTE -> <<BACKSLASH, QUOTE>>
      [] c = BACKSLASH -> <<BACKSLASH, BACKSLASH>>
      [] c = LF -> <<BACKSLASH, "n">>
      [] c = EAcute -> <<BACKSLASH, "u", "0", "0", "e", "9">>
      [] OTHER -> <<c>>

RECURSIVE EscapeAll(_)
EscapeAll(s) ==
    IF s = <<>> THEN <<>> ELSE EscapeChar(Head(s)) \o EscapeAll(Tail(s))

DumpStr(s) == <<QUOTE>> \o EscapeAll(s) \o <<QUOTE>>

RECURSIVE json_dumps(_), DumpPairs(_, _)
\* json.dumps(v) with the default separators ", " and ": "
json_dumps(v) ==
    CASE v.t = "int" -> Digits(v.n)
      [] v.t = "str" -> DumpStr(v.s)
      [] v.t = "obj" -> <<"{">> \o DumpPairs(v.o, 1) \o <<"}">>

DumpPairs(o, i) ==
    IF i > Len(o) THEN <<>>
    ELSE (IF i > 1 THEN <<",", " ">> ELSE <<>>)
           \o DumpStr(o[i].k) \o <<":", " ">> \o json_dumps(o[i].v)
           \o DumpPairs(o, i + 1)

\* json.loads: a result is the value and the index after it, or a failure
Whitespace == {" ", "\t", LF, CR}

ParseFail == [ok |-> FALSE, v |-> JNull, i |-> 0]

Parsed(v, i) == [ok |-> TRUE, v |-> v, i |-> i]

RECURSIVE SkipWs(_, _)
SkipWs(s, i) ==
    IF i <= Len(s) /\ s[i] \in Whitespace THEN SkipWs(s, i + 1) ELSE i

RECURSIVE NumEnd(_, _)
\* the index after the digits that start at i
NumEnd(s, i) == IF i <= Len(s) /\ IsDigit(s[i]) THEN NumEnd(s, i + 1) ELSE i

RECURSIVE DigitsVal(_)
DigitsVal(ds) ==
    IF ds = <<>> THEN 0
    ELSE 10 * DigitsVal(SubSeq(ds, 1, Len(ds) - 1)) + DigitVal(ds[Len(ds)])

RECURSIVE ParseStrBody(_, _, _)
\* the characters of a string up to its closing quote; i is after the
\* opening quote
ParseStrBody(s, i, acc) ==
    IF i > Len(s) THEN ParseFail
    ELSE IF s[i] = QUOTE THEN [ok |-> TRUE, v |-> JStr(acc), i |-> i + 1]
    ELSE IF s[i] \in {LF, CR, "\t"} THEN ParseFail
    ELSE IF s[i] = BACKSLASH
         THEN IF i + 1 > Len(s) THEN ParseFail
              ELSE IF s[i + 1] \in {QUOTE, BACKSLASH, "/"}
                   THEN ParseStrBody(s, i + 2, Append(acc, s[i + 1]))
              ELSE IF s[i + 1] = "n"
                   THEN ParseStrBody(s, i + 2, Append(acc, LF))
              ELSE IF s[i + 1] = "u" /\ i + 5 <= Len(s)
                      /\ SubSeq(s, i + 2, i + 5) = <<"0", "0", "e", "9">>
                   THEN ParseStrBody(s, i + 6, Append(acc, EAcute))
              ELSE ParseFail
    ELSE ParseStrBody(s, i + 1, Append(acc, s[i]))

RECURSIVE ParseValue(_, _), ParsePairs(_, _, _)
\* the JSON value that starts at or after index i
ParseValue(s, i) ==
    LET j == SkipWs(s, i) IN
    IF j > Len(s) THEN ParseFail
    ELSE IF s[j] = QUOTE THEN ParseStrBody(s, j + 1, <<>>)
    ELSE IF IsDigit(s[j])
         THEN LET e == NumEnd(s, j)
              IN  IF s[j] = "0" /\ e > j + 1 THEN ParseFail
                  ELSE Parsed(JInt(DigitsVal(SubSeq(s, j, e - 1))), e)
    ELSE IF s[j] = "{"
         THEN LET k == SkipWs(s, j + 1)
              IN  IF k <= Len(s) /\ s[k] = "}" THEN Parsed(JObj(<<>>), k + 1)
                  ELSE ParsePairs(s, k, <<>>)
    ELSE ParseFail

\* the pairs of an object from index i on, up to the closing brace
ParsePairs(s, i, acc) ==
    LET j == SkipWs(s, i) IN
    IF j > Len(s) \/ s[j] # QUOTE THEN ParseFail
    ELSE LET key == ParseStrBody(s, j + 1, <<>>) IN
         IF ~key.ok THEN ParseFail
         ELSE LET c == SkipWs(s, key.i) IN
              IF c > Len(s) \/ s[c] # ":" THEN ParseFail
              ELSE LET val == ParseValue(s, c + 1) IN
                   IF ~val.ok THEN ParseFail
                   ELSE LET e == SkipWs(s, val.i)
                            acc2 == Append(acc, Pair(key.v.s, val.v))
                        IN  IF e > Len(s) THEN ParseFail
                            ELSE IF s[e] = "}" THEN Parsed(JObj(acc2), e + 1)
                            ELSE IF s[e] = "," THEN ParsePairs(s, e + 1, acc2)
                            ELSE ParseFail

\* json.loads(raw): one value and nothing but white space after it
json_loads(s) ==
    LET r == ParseValue(s, 1)
    IN  IF r.ok /\ SkipWs(s, r.i) > Len(s) THEN r ELSE ParseFail

(* ------------------ the bytes on the socket: framing ------------------- *)

ContentLength ==
    <<"C", "o", "n", "t", "e", "n", "t", "-", "L", "e", "n", "g", "t", "h">>

\* str.lower() on the letters that occur in the headers
LowerChar(c) == CASE c = "C" -> "c" [] c = "L" -> "l" [] c = "X" -> "x"
                  [] OTHER -> c

LowerText(s) == [k \in 1..Len(s) |-> LowerChar(s[k])]

RECURSIVE LStrip(_), RStrip(_), RStripCR(_)
LStrip(s) == IF s # <<>> /\ Head(s) \in Whitespace THEN LStrip(Tail(s)) ELSE s

RStrip(s) ==
    IF s # <<>> /\ s[Len(s)] \in Whitespace
    THEN RStrip(SubSeq(s, 1, Len(s) - 1)) ELSE s

\* str.strip()
Strip(s) == RStrip(LStrip(s))

\* bytes.rstrip(b"\r")
RStripCR(s) ==
    IF s # <<>> /\ s[Len(s)] = CR THEN RStripCR(SubSeq(s, 1, Len(s) - 1)) ELSE s

\* the index of the first ":" of a line that has one
Colon(line) == CHOOSE p \in 1..Len(line) :
                  line[p] = ":" /\ \A q \in 1..(p - 1) : line[q] # ":"

\* int(length_str): an optional sign and decimal digits, else ValueError
ParseInt(s) ==
    LET signed == s # <<>> /\ s[1] \in {"-", "+"}
        ds == IF signed THEN Tail(s) ELSE s
    IN  IF ds = <<>> \/ \E k \in 1..Len(ds) : ~IsDigit(ds[k])
        THEN [ok |-> FALSE, n |-> 0]
        ELSE [ok |-> TRUE,
              n |-> IF s[1] = "-" THEN 0 - DigitsVal(ds) ELSE DigitsVal(ds)]

K_seq == <<"s", "e", "q">>
K_type == <<"t", "y", "p", "e">>
K_command == <<"c", "o", "m", "m", "a", "n", "d">>
K_arguments == <<"a", "r", "g", "u", "m", "e", "n", "t", "s">>
T_request == <<"r", "e", "q", "u", "e", "s", "t">>

\* the request dict of send_dap_request; arguments None stands for {}
RequestDict(r) ==
    JObj(<<Pair(K_seq, JInt(r.seq)),
           Pair(K_type, JStr(T_request)),
           Pair(K_command, JStr(r.command)),
           Pair(K_arguments,
                IF r.arguments = JNull THEN JObj(<<>>) ELSE r.arguments)>>)

\* payload = json.dumps(request).encode("utf-8"): the text is ASCII
Payload(r) == json_dumps(RequestDict(r))

\* f"Content-Length: {len(payload)}\r\n\r\n"
Header(payload) ==
    ContentLength \o <<":", " ">> \o Digits(Len(payload)) \o <<CR, LF, CR, LF>>

\* the requests written in the loopback runs
WireRequests ==
    [seq : {1, 12},
     command : {<<"p", "a", "u", "s", "e">>, <<"a", QUOTE, BACKSLASH, EAcute>>},
     arguments : {JNull,
                  JObj(<<Pair(<<"t", "h", "r", "e", "a", "d", "I", "d">>, JInt(2))>>),
                  JObj(<<Pair(<<"e">>, JStr(<<"x", LF>>))>>)}]

NoRequest == [seq |-> 0, command |-> <<>>, arguments |-> JNull]

\* a frame to write: a request for send_dap_request, or the bytes of a
\* peer with the length its header declares and the message it carries
RequestItem(r) ==
    [kind |-> "request", req |-> r, hdr |-> <<>>, body |-> <<>>,
     declared |-> 0, value |-> RequestDict(r), ok |-> TRUE]

PeerItem(hdr, body, declared, value, ok) ==
    [kind |-> "peer", req |-> NoRequest, hdr |-> hdr, body |-> body,
     declared |-> declared, value |-> value, ok |-> ok]

PeerEvent == JObj(<<Pair(<<"t">>, JStr(<<"e">>))>>)

\* a payload written without spaces, with a line break inside
PeerCompact == <<"{", QUOTE, "a", QUOTE, ":", LF, "7", "}">>

PeerCompactValue == JObj(<<Pair(<<"a">>, JInt(7))>>)

\* header blocks of a peer: as the protocol says; with bare "\n"; with a
\* line that is no header, a lower-case key, no space and a trailing space
PeerHeaders(n) ==
    { ContentLength \o <<":", " ">> \o Digits(n) \o <<CR, LF, CR, LF>>,
      ContentLength \o <<":", " ">> \o Digits(n) \o <<LF, LF>>,
      <<"X", CR, LF>> \o LowerText(ContentLength) \o <<":">> \o Digits(n)
          \o <<" ", CR, LF, CR, LF>> }

PeerFrames ==
    { PeerItem(h, json_dumps(PeerEvent), Len(json_dumps(PeerEvent)), PeerEvent, TRUE) :
          h \in PeerHeaders(Len(json_dumps(PeerEvent))) }
    \cup { PeerItem(h, PeerCompact, Len(PeerCompact), PeerCompactValue, TRUE) :
          h \in PeerHeaders(Len(PeerCompact)) }
    \cup { \* no Content-Length header
           PeerItem(<<"X", ":", "1", CR, LF, CR, LF>>, PeerCompact, 0, JNull, FALSE),
           \* a length that is no number
           PeerItem(ContentLength \o <<":", " ", "x", CR, LF, CR, LF>>,
                    PeerCompact, 0, JNull, FALSE),
           \* a length beyond the payload
           PeerItem(ContentLength \o <<":", " ", "1", "1", CR, LF, CR, LF>>,
                    PeerCompact, 11, JNull, FALSE) }

WireItems == { RequestItem(r) : r \in WireRequests } \cup PeerFrames

\* two frames to write back to back, then the reads
InitWire ==
    /\ outbox \in { <<a, b>> : a \in WireItems, b \in WireItems }
    /\ wire = <<>>
    /\ wpc = "idle"
    /\ buf = <<>>
    /\ headers = EmptyMap
    /\ need = 0
    /\ data = <<>>
    /\ msgs = <<>>
    /\ written = <<>>
    /\ pc = "initialize"
    /\ depth_limit = 0
    /\ sockOpen = TRUE
    /\ closes = 0
    /\ seq = 1
    /\ sent = <<>>
    /\ unanswered = {}
    /\ rd = <<>>
    /\ log = <<>>
    /\ noise = 0
    /\ stoppedRead = FALSE
    /\ adapter = "graph"
    /\ graph = EmptyMap
    /\ threads_list = <<>>
    /\ thread_id = 0
    /\ frames = <<>>
    /\ fi = 1
    /\ scope_list = <<>>
    /\ si = 1
    /\ scope_dict = EmptyMap
    /\ frames_data = <<>>
    /\ visited = {}
    /\ stack = <<>>
    /\ call = NoCall
    /\ ret = <<>>
    /\ result = NoResult

\* send_dap_request: sock.sendall(header + payload)
SendFrame ==
    /\ outbox # <<>>
    /\ Head(outbox).kind = "request"
    /\ LET payload == Payload(Head(outbox).req)
           header == Header(payload)
       IN  /\ wire' = wire \o header \o payload
           /\ written' = Append(written,
                                [Head(outbox) EXCEPT !.hdr = header,
                                                     !.body = payload,
                                                     !.declared = Len(payload)])
    /\ outbox' = Tail(outbox)
    /\ UNCHANGED <<wpc, buf, headers, need, data, msgs, progVars>>

\* the peer writes one frame
PeerWrites ==
    /\ outbox # <<>>
    /\ Head(outbox).kind = "peer"
    /\ wire' = wire \o Head(outbox).hdr \o Head(outbox).body
    /\ written' = Append(written, Head(outbox))
    /\ outbox' = Tail(outbox)
    /\ UNCHANGED <<wpc, buf, headers, need, data, msgs, progVars>>

\* read_dap_message is called: headers = {}
ReadDapMessage ==
    /\ wpc = "idle"
    /\ outbox = <<>>
    /\ wpc' = "line"
    /\ headers' = EmptyMap
    /\ buf' = <<>>
    /\ UNCHANGED <<wire, need, data, msgs, outbox, written, progVars>>

\* the headers after a header line: k.strip().lower() -> v.strip()
WithLine(hs, line) ==
    IF \E p \in 1..Len(line) : line[p] = ":"
    THEN (LowerText(Strip(SubSeq(line, 1, Colon(line) - 1)))
            :> Strip(SubSeq(line, Colon(line) + 1, Len(line)))) @@ hs
    ELSE hs

\* headers.get("content-length"), "" when there is none
LengthStr(hs) ==
    IF LowerText(ContentLength) \in DOMAIN hs THEN hs[LowerText(ContentLength)]
    ELSE <<>>

\* read_line: one sock.recv(1); at "\n" the line is complete and
\* read_dap_message takes it
ReadLineByte ==
    /\ wpc = "line"
    /\ wire # <<>>
    /\ wire' = Tail(wire)
    /\ IF Head(wire) # LF
       THEN /\ buf' = Append(buf, Head(wire))
            /\ UNCHANGED <<wpc, headers, need, data>>
       ELSE /\ buf' = <<>>
            /\ data' = <<>>
            /\ IF RStripCR(buf) # <<>>
               THEN /\ headers' = WithLine(headers, RStripCR(buf))
                    /\ UNCHANGED <<wpc, need>>
               ELSE /\ UNCHANGED headers
                    /\ IF LengthStr(headers) = <<>>
                          \/ ~ParseInt(LengthStr(headers)).ok
                          \/ ParseInt(LengthStr(headers)).n <= 0
                       THEN wpc' = "raised" /\ UNCHANGED need
                       ELSE /\ wpc' = "body"
                            /\ need' = ParseInt(LengthStr(headers)).n
    /\ UNCHANGED <<msgs, outbox, written, progVars>>

\* sock.recv returns b"": ConnectionError
ReadLineClosed ==
    /\ wpc = "line"
    /\ wire = <<>>
    /\ wpc' = "raised"
    /\ UNCHANGED <<wire, buf, headers, need, data, msgs, outbox, written,
                   progVars>>

\* (mutant) every recv asks for n bytes
RecvMax_WholeN(n, d) == n

\* the argument of sock.recv in read_exactly
RecvMax(n, d) == n - Len(d)

Min(a, b) == IF a < b THEN a ELSE b

\* read_exactly: one sock.recv(n - len(data)), which returns some of the
\* bytes asked for; with the last chunk json.loads parses the payload
ReadExactlyChunk ==
    /\ wpc = "body"
    /\ wire # <<>>
    /\ \E k \in 1..Min(RecvMax(need, data), Len(wire)) :
         LET d == data \o SubSeq(wire, 1, k) IN
         /\ wire' = SubSeq(wire, k + 1, Len(wire))
         /\ IF Len(d) < need
            THEN data' = d /\ UNCHANGED <<wpc, msgs>>
            ELSE /\ data' = <<>>
                 /\ IF json_loads(d).ok
                    THEN /\ msgs' = Append(msgs, json_loads(d).v)
                         /\ wpc' = "idle"
                    ELSE /\ wpc' = "raised"
                         /\ UNCHANGED msgs
    /\ UNCHANGED <<buf, headers, need, outbox, written, progVars>>

ReadExactlyClosed ==
    /\ wpc = "body"
    /\ wire = <<>>
    /\ wpc' = "raised"
    /\ UNCHANGED <<wire, buf, headers, need, data, msgs, outbox, written,
                   progVars>>

NextWire ==
    \/ SendFrame \/ PeerWrites
    \/ ReadDapMessage
    \/ ReadLineByte \/ ReadLineClosed
    \/ ReadExactlyChunk \/ ReadExactlyClosed

SpecWire == InitWire /\ [][NextWire]_vars

(* ============================== claims ================================= *)

SentCommands == { sent[k].command : k \in 1..Len(sent) }

\* the positions in sent of the requests with command c
Sent(c) == { k \in 1..Len(sent) : sent[k].command = c }

\* the client is inside a wait loop, or a read of that loop raised before
\* the response to the last request came
InWait ==
    \/ pc \in WaitPcs
    \/ pc = "raised" /\ sockOpen /\ Len(sent) \in unanswered

C2_StackTraceAfterStopped ==
    (pc = "stackTrace" \/ "stackTrace" \in SentCommands) => stoppedRead

\* a successful pause response and another message were read, and the
\* client still waits in the pause loop
C2_Witness ==
    /\ pc = "waitPause"
    /\ ~stoppedRead
    /\ Len(rd) = 2
    /\ \E k \in 1..2 : IsResponseTo(rd[k], "pause") /\ rd[k].success

TreeDone == pc = "fvtReturn" /\ stack = <<>>

\* the reference of the outermost fetch_variable_tree call: the request
\* sent when visited held one reference
RootRef == sent[Len(sent) - Cardinality(visited) + 1].arg

\* C4: the cycle sentinel is returned only for a reference that is being
\* expanded on the active recursion path (reached again below itself); a
\* reference met a second time in a sibling branch is expanded again.
C4_SentinelOnlyOnPath ==
    (pc = "fvtCall" /\ InVisited(call.var_ref)) =>
        \E k \in 1..Len(stack) : stack[k].var_ref = call.var_ref

\* C5: when the adapter reports A's single child as a reference back to A,
\* the expansion of A with any depth budget >= 1 (5 included) sends one
\* request and returns the child with the sentinel as its only child; for
\* every reference graph no reference is requested twice by one expansion
\* and the recursion is never deeper than the references visited, which
\* bounds the expansion by the size of the graph.
C5_CycleSafe ==
    /\ adapter = "graph" =>
         /\ \A j, k \in 1..Len(sent) : sent[j].arg = sent[k].arg => j = k
         /\ Len(sent) = Cardinality(visited)
         /\ Len(stack) <= Cardinality(visited)
    /\ (/\ TreeDone
        /\ adapter = "graph"
        /\ depth_limit >= 1
        /\ graph[RootRef] = <<RootRef>>) =>
         /\ Len(sent) = 1
         /\ ret = <<[name |-> "a", variablesReference |-> RootRef,
                     children |-> <<Sentinel>>]>>

\* expand(refA, depth 5) returned for the self-referential A
C5_Witness ==
    /\ TreeDone
    /\ adapter = "graph"
    /\ depth_limit = 5
    /\ graph[RootRef] = <<RootRef>>
    /\ ret[1].children = <<Sentinel>>

RECURSIVE Levels(_)
\* number of levels of a variable tree (0 for the empty list)
Levels(tree) ==
    IF tree = <<>> THEN 0
    ELSE LET below == { Levels(tree[k].children) : k \in 1..Len(tree) }
         IN  1 + CHOOSE n \in below : \A x \in below : x <= n

RECURSIVE ChainTree(_, _)
\* the chain whose first node has reference r, cut after d expansions
ChainTree(r, d) ==
    <<[name |-> "a", variablesReference |-> r,
       children |-> IF d > 0 THEN ChainTree(r + 1, d - 1) ELSE <<>>]>>

RECURSIVE Deepest(_)
\* the nodes of a chain-shaped tree that have no children
Deepest(tree) ==
    IF tree[1].children = <<>> THEN tree[1] ELSE Deepest(tree[1].children)

\* C6: against the endless chain, fetch_variable_tree(ref, depth = d)
\* returns exactly d + 1 levels for every d >= 0, the deepest node has no
\* children although its variablesReference is not zero, d + 1 requests
\* are sent (with d = 0 only the one for the immediate children), and no
\* call ever gets a negative depth.
C6_DepthBound ==
    /\ call.depth >= 0
    /\ \A k \in 1..Len(stack) : stack[k].depth >= 0
    /\ (TreeDone /\ adapter = "chain") =>
         /\ Levels(ret) = depth_limit + 1
         /\ ret = ChainTree(RootRef + 1, depth_limit)
         /\ Deepest(ret).variablesReference # 0
         /\ Deepest(ret).children = <<>>
         /\ Len(sent) = depth_limit + 1

\* the chain was expanded with depth 2 and three levels came back
C6_Witness ==
    /\ TreeDone
    /\ adapter = "chain"
    /\ depth_limit = 2
    /\ Levels(ret) = 3

\* C7: the k-th request written to the socket carries seq = k, and the
\* counter is always one more than the number of requests written, so no
\* number is skipped or reused and a step that sends nothing (the return
\* of the cycle sentinel included) leaves the counter unchanged.
C7_SeqConsecutive ==
    /\ seq = Len(sent) + 1
    /\ \A k \in 1..Len(sent) : sent[k].seq = k

\* a recursive call returned the sentinel after the ninth request
C7_Witness ==
    /\ pc = "fvtReturn"
    /\ ret = <<Sentinel>>
    /\ Len(sent) = 9
    /\ sent[9].command = "variables"
    /\ seq = 10

\* C8: the socket is closed exactly once on every exit path: never twice,
\* and every run that ended (returned or raised) has closed it.
C8_ClosedExactlyOnce ==
    /\ closes <= 1
    /\ pc \in {"done", "raised"} => (closes = 1 /\ ~sockOpen)

ThreadsAnswered ==
    Sent("threads") # {} /\ Sent("threads") \cap unanswered = {}

LastCommand == sent[Len(sent)].command

\* the response to the last request was read and indexing its body raised
NoBodyRaised ==
    /\ pc = "raised"
    /\ rd # <<>>
    /\ LastCommand \in {"threads", "stackTrace", "scopes"}
    /\ IsResponseTo(rd[Len(rd)], LastCommand)

\* C9: once the threads response with an empty list was read, the threads
\* request stays the last request sent, and the run ends returning
\* {"frames": []}.
C9_EmptyThreadList ==
    (ThreadsAnswered /\ ~NoBodyRaised /\ threads_list = <<>>) =>
        /\ Len(sent) = 4
        /\ sent[4].command = "threads"
        /\ pc \in {"checkThreads", "done"}
        /\ pc = "checkThreads" => ~result.returned
        /\ pc = "done" => result = [returned |-> TRUE, frames |-> <<>>]

\* the run returned after an empty thread list
C9_Witness ==
    /\ pc = "done"
    /\ ThreadsAnswered
    /\ threads_list = <<>>
    /\ result.returned
    /\ ~sockOpen

WaitedCommands ==
    {"initialize", "configurationDone", "threads", "stackTrace", "scopes",
     "variables"}

\* C10: a wait for the response to command C reads in stream order, ends at
\* the first response whose command is C and reads nothing after it, and
\* every message read before it was printed exactly once, in arrival order.
C10_ResponseWait ==
    (Len(sent) > 0 /\ LastCommand \in WaitedCommands) =>
        IF InWait
        THEN /\ log = rd
             /\ \A k \in 1..Len(rd) : ~IsResponseTo(rd[k], LastCommand)
        ELSE /\ Len(rd) >= 1
             /\ IsResponseTo(rd[Len(rd)], LastCommand)
             /\ log = SubSeq(rd, 1, Len(rd) - 1)
             /\ \A k \in 1..Len(log) : ~IsResponseTo(log[k], LastCommand)

\* the wait for configurationDone ended after an event and the attach
\* response were read and printed
C10_Witness ==
    /\ pc = "threads"
    /\ Len(rd) = 3
    /\ rd[1].type = "event"
    /\ IsResponseTo(rd[2], "attach")
    /\ IsResponseTo(rd[3], "configurationDone")
    /\ log = <<rd[1], rd[2]>>

HasBoth(scopes) == "globals" \in DOMAIN scopes /\ "locals" \in DOMAIN scopes

C20_PostTotal ==
    (~sockOpen /\ threads_list # <<>>) =>
        /\ pc = "done"
        /\ result.returned
        /\ \A k \in 1..Len(frames_data) :
             ~HasBoth(frames_data[k].scopes) =>
                 result.frames[k].scopes = frames_data[k].scopes

\* C12: a read that fails in any wait loop (of dap_client or of the
\* expansion) ends the run by raising: the step of a waiting client that
\* consumes no message leads to the raised state with no result and no new
\* request, and nothing happens after the run has raised.
C12_FailurePropagates ==
    [][ /\ (pc \in WaitPcs /\ rd' = rd) =>
             (pc' = "raised" /\ ~result'.returned /\ sent' = sent)
        /\ pc # "raised" ]_vars

\* a read failed inside the expansion of the second frame: the first frame
\* was assembled and is not returned
C12_Witness ==
    /\ pc = "raised"
    /\ sockOpen
    /\ stack # <<>>
    /\ Len(frames_data) = 1
    /\ ~result.returned

\* the children the adapter reports for reference r
Kids(r) == IF adapter = "chain" THEN ChainKids(r) ELSE graph[r]

RECURSIVE TreeReqs(_, _, _), KidsReqs(_, _, _, _, _)
\* the references one expansion asks the adapter for, in order, and the
\* references it has visited at its end
TreeReqs(ref, depth, vis) ==
    IF ref \in vis THEN [reqs |-> <<>>, vis |-> vis]
    ELSE KidsReqs(Kids(ref), 1, depth, vis \cup {ref}, <<ref>>)

KidsReqs(kids, i, depth, vis, reqs) ==
    IF i > Len(kids) THEN [reqs |-> reqs, vis |-> vis]
    ELSE IF kids[i] > 0 /\ depth > 0
         THEN LET r == TreeReqs(kids[i], depth - 1, vis)
              IN  KidsReqs(kids, i + 1, depth, r.vis, reqs \o r.reqs)
         ELSE KidsReqs(kids, i + 1, depth, vis, reqs)

Req(command, arg) == [command |-> command, arg |-> arg]

VarReqs(refs) == [k \in 1..Len(refs) |-> Req("variables", refs[k])]

\* the scopes of a frame in the order of the scopes response
ScopesOf(scopes) ==
    SelectSeq(<<Scope("Locals"), Scope("Globals")>>,
              LAMBDA sc : Lower(sc.name) \in DOMAIN scopes)

RECURSIVE ScopeReqs(_, _)
ScopeReqs(scs, i) ==
    IF i > Len(scs) THEN <<>>
    ELSE VarReqs(TreeReqs(scs[i].variablesReference, depth_limit, {}).reqs)
           \o ScopeReqs(scs, i + 1)

RECURSIVE FrameReqs(_)
\* the requests of the frames j, j + 1, ...: scopes, then the variables
\* requests of its scopes, frame after frame
FrameReqs(j) ==
    IF j > Len(frames_data) THEN <<>>
    ELSE <<Req("scopes", frames_data[j].id)>>
           \o ScopeReqs(ScopesOf(frames_data[j].scopes), 1)
           \o FrameReqs(j + 1)

Handshake ==
    <<Req("initialize", 0), Req("attach", 0), Req("configurationDone", 0),
      Req("threads", 0), Req("pause", thread_id), Req("stackTrace", thread_id)>>

SentReqs == [k \in 1..Len(sent) |-> Req(sent[k].command, sent[k].arg)]

\* C15: the requests start with initialize, attach, configurationDone,
\* threads, pause, stackTrace, each once, followed by scopes and variables
\* requests only; a run that completes has sent, frame after frame in the
\* order of the stackTrace response, one scopes request and then the
\* variables requests of the frame's scopes in the order of the scopes
\* response, and nothing else.
C15_RequestOrder ==
    /\ \A k \in 1..Len(sent) :
         IF k <= 6 THEN sent[k].command = Handshake[k].command
         ELSE sent[k].command \in {"scopes", "variables"}
    /\ Len(sent) >= 7 => sent[7] = [seq |-> 7, command |-> "scopes", arg |-> frames[1]]
    /\ (pc = "done" /\ threads_list # <<>>) =>
         /\ [k \in 1..Len(frames_data) |-> frames_data[k].id] = frames
         /\ SentReqs = Handshake \o FrameReqs(1)

\* a run over two frames with two scopes each has completed
C15_Witness ==
    /\ pc = "done"
    /\ Len(frames_data) = 2
    /\ \A k \in 1..2 : HasBoth(frames_data[k].scopes)
    /\ depth_limit = 1
    /\ Len(sent) > 12

\* the reference of the scope stored under the lower-case name n
ScopeRef(n) == IF n = "locals" THEN Scope("Locals").variablesReference
               ELSE Scope("Globals").variablesReference

\* the tree t lists the real children of reference r
RealChildren(t, r) ==
    /\ t # <<Sentinel>>
    /\ Len(t) = Len(Kids(r))
    /\ \A i \in 1..Len(t) :
         /\ t[i].variablesReference = Kids(r)[i]
         /\ t[i].name = VarNames[i]

\* C16: every scope of every frame is expanded with a fresh, empty visited
\* set: the top-level call starts with visited empty, and the tree stored
\* for a scope lists the real children of the scope's reference, never the
\* cycle sentinel, although the reference was expanded in an earlier scope
\* or frame; the same scope has the same tree in every frame.
C16_FreshVisitedPerScope ==
    /\ (pc = "fvtCall" /\ stack = <<>>) => visited = {}
    /\ \A n \in DOMAIN scope_dict : RealChildren(scope_dict[n], ScopeRef(n))
    /\ \A k \in 1..Len(frames_data) : \A n \in DOMAIN frames_data[k].scopes :
         /\ RealChildren(frames_data[k].scopes[n], ScopeRef(n))
         /\ n \in DOMAIN frames_data[1].scopes =>
              frames_data[k].scopes[n] = frames_data[1].scopes[n]
         /\ n \in DOMAIN scope_dict => scope_dict[n] = frames_data[k].scopes[n]

\* the second frame's Globals scope, whose reference 2 was expanded inside
\* Locals and in the first frame, has been expanded again
C16_Witness ==
    /\ Len(frames_data) = 1
    /\ HasBoth(frames_data[1].scopes)
    /\ fi = 2
    /\ pc = "scopeLoop"
    /\ HasBoth(scope_dict)
    /\ depth_limit = 1
    /\ scope_dict["globals"][1].children # <<>>

VariablesSent == SelectSeq(sent, LAMBDA r : r.command = "variables")

\* the child the loop of the innermost call is at
Child == Top.vars_list[Top.i]

\* C17: a call of fetch_variable_tree on a reference that is not in visited
\* sends exactly one variables request, for that reference, and no other
\* step of the expansion sends anything, however many children a response
\* lists; a call on a visited reference sends nothing; a child with
\* reference 0 or reached with depth 0 causes no request and keeps empty
\* children. So each visited reference was requested exactly once.
C17_RequestCost ==
    [][ /\ (pc = "fvtCall" /\ call.var_ref \notin visited) =>
             sent' = Append(sent, Request(seq, "variables", call.var_ref))
        /\ (pc = "fvtCall" /\ call.var_ref \in visited) =>
             (sent' = sent /\ ret' = <<Sentinel>>)
        /\ pc # "fvtCall" => sent' = sent
        /\ (/\ pc = "fvtLoop"
            /\ Top.i <= Len(Top.vars_list)
            /\ (Child.variablesReference = 0 \/ Top.depth = 0)) =>
             /\ sent' = sent
             /\ pc' = "fvtLoop"
             /\ Len(stack') = Len(stack)
             /\ stack'[Len(stack)].result =
                  Append(Top.result, [name |-> Child.name,
                                      variablesReference |-> Child.variablesReference,
                                      children |-> <<>>])
        /\ Len(VariablesSent) = Cardinality(visited)
        /\ \A r \in visited :
             Len(SelectSeq(sent, LAMBDA q : q.arg = r)) = 1 ]_vars

\* an expandable child was reached with depth 0 and kept empty children
\* after one request for the root and one for its parent; and a visited
\* reference came back with no request
C17_Witness ==
    /\ pc = "fvtLoop"
    /\ Len(stack) = 2
    /\ Top.depth = 0
    /\ Top.result # <<>>
    /\ Top.result[1].variablesReference > 0
    /\ Top.result[1].children = <<>>
    /\ Len(sent) = 2

\* the command a wait loop waits for, and where the client goes on
Awaited ==
    [waitInitialize |-> "initialize", waitConfigurationDone |-> "configurationDone",
     waitThreads |-> "threads", waitStackTrace |-> "stackTrace",
     waitScopes |-> "scopes", waitVariables |-> "variables"]

GoesOn ==
    [waitInitialize |-> "attach", waitConfigurationDone |-> "threads",
     waitThreads |-> "checkThreads", waitStackTrace |-> "frameLoop",
     waitScopes |-> "scopeLoop", waitVariables |-> "fvtLoop"]

\* C18: a response with success = false is never fatal: after reading the
\* awaited response with success = false the client goes on to the step it
\* goes on to after a success = true response, and a pause response of
\* either kind leaves it waiting for the stopped event; it never raises.
C18_PermissiveSuccess ==
    [][ \A m \in Responses :
          (rd' = Append(rd, m) /\ ~m.success) =>
             /\ (pc \in DOMAIN Awaited /\ m.command = Awaited[pc]) =>
                   pc' = GoesOn[pc]
             /\ (pc = "waitPause" /\ m.command = "pause") => pc' = pc
             /\ pc' # "raised" ]_vars

\* C19: against an adapter that answers every request, sends a stopped
\* event after the pause request and interleaves finitely many other
\* messages, dap_client eventually ends: it returns or raises, and waits in
\* no wait loop forever.
C19_RunEnds == <>(pc \in {"done", "raised"})

\* a run over two frames returned its result after the adapter interleaved
\* as many other messages as it may
C19_Witness ==
    /\ pc = "done"
    /\ result.returned
    /\ Len(result.frames) = 2
    /\ noise = MaxNoise
    /\ stoppedRead

RECURSIVE BytesFrom(_)
\* the bytes of the frames written from the k-th on
BytesFrom(k) ==
    IF k > Len(written) THEN <<>>
    ELSE written[k].hdr \o written[k].body \o BytesFrom(k + 1)

\* t ends with the bytes u
EndsWith(t, u) ==
    Len(u) <= Len(t) /\ SubSeq(t, Len(t) - Len(u) + 1, Len(t)) = u

\* C13: read_dap_message takes from the stream the header block with its
\* blank line and the payload bytes the header declares, and no byte more,
\* however recv splits them: between calls the stream holds exactly the
\* frames after the ones returned; a call never reads beyond the declared
\* end of its frame; the k-th call returns the message of the k-th frame,
\* and raises only on a frame that is not well formed or at the end of
\* the stream.
C13_ByteExact ==
    LET k == Len(msgs)
        \* the bytes behind the declared end of frame k + 1
        behind == Len(BytesFrom(k + 2))
                    + Len(written[k + 1].body) - written[k + 1].declared
    IN  /\ \A j \in 1..k : msgs[j] = written[j].value
        /\ wpc = "idle" => wire = BytesFrom(k + 1)
        /\ wpc \in {"line", "body", "raised"} => EndsWith(BytesFrom(k + 1), wire)
        /\ (wpc = "line" /\ k < Len(written)) =>
              Len(wire) >= Len(BytesFrom(k + 2)) + Len(written[k + 1].body)
        /\ wpc = "body" =>
              /\ need = written[k + 1].declared
              /\ Len(data) < need
              /\ data \o wire = written[k + 1].body \o BytesFrom(k + 2)
        /\ (wpc = "raised" /\ k < Len(written)) =>
              /\ ~written[k + 1].ok
              /\ Len(wire) >= behind
        /\ (wpc = "raised" /\ k = Len(written)) => wire = <<>>

\* both frames of a peer were read: the first with bare "\n" line ends
\* and a line break inside its payload
C13_Witness ==
    /\ wpc = "idle"
    /\ Len(msgs) = 2
    /\ written[1].kind = "peer"
    /\ written[1].hdr =
         ContentLength \o <<":", " ">> \o Digits(Len(PeerCompact)) \o <<LF, LF>>
    /\ written[1].body = PeerCompact
    /\ written[2].kind = "peer"
    /\ msgs[2] = PeerEvent
    /\ wire = <<>>

\* dict lookup: the value of the key in a JSON object
Field(m, key) ==
    IF \E i \in 1..Len(m.o) : m.o[i].k = key
    THEN m.o[CHOOSE i \in 1..Len(m.o) : m.o[i].k = key].v
    ELSE JNull

\* C14: what send_dap_request writes, read_dap_message reads back: a
\* message of type "request" with the same seq, command and arguments ({}
\* for None); the Content-Length it was written with is the number of
\* bytes of the payload, and the read does not raise.
C14_RoundTrip ==
    LET k == Len(msgs) IN
    /\ \A j \in 1..k :
         written[j].kind = "request" =>
            /\ msgs[j].t = "obj"
            /\ Len(msgs[j].o) = 4
            /\ Field(msgs[j], K_seq) = JInt(written[j].req.seq)
            /\ Field(msgs[j], K_type) = JStr(T_request)
            /\ Field(msgs[j], K_command) = JStr(written[j].req.command)
            /\ Field(msgs[j], K_arguments) =
                 (IF written[j].req.arguments = JNull THEN JObj(<<>>)
                  ELSE written[j].req.arguments)
    /\ (k < Len(written) /\ written[k + 1].kind = "request") =>
         /\ wpc = "body" =>
              /\ need = Len(written[k + 1].body)
              /\ data \o wire = written[k + 1].body \o BytesFrom(k + 2)
         /\ wpc # "raised"

\* two requests were written and read back, the first with seq 12, a
\* command with a quote, a backslash and a letter outside ASCII, and
\* arguments with a line break
C14_Witness ==
    /\ wpc = "idle"
    /\ Len(msgs) = 2
    /\ written[1].kind = "request"
    /\ written[1].req.seq = 12
    /\ written[1].req.command = <<"a", QUOTE, BACKSLASH, EAcute>>
    /\ written[1].req.arguments = JObj(<<Pair(<<"e">>, JStr(<<"x", LF>>))>>)
    /\ written[2].kind = "request"
    /\ written[2].req.arguments = JNull
    /\ wire = <<>>

====
